---- MODULE Spec2Model ----
(***************************************************************************)
(* Model of scripts/temperature_analyzer.py: class TemperatureAnalyzer.     *)
(*                                                                         *)
(* The analyzer reads a CSV of (timestamp, location, temperature_c) rows   *)
(* into a pandas DataFrame (self.df), sorts it by timestamp and answers    *)
(* queries over it.  The state is the input file, the DataFrame, the file  *)
(* system the plot and the report are written to, and the outcome of the   *)
(* last call.                                                              *)
(*                                                                         *)
(* temperature_c is a float64 column.  TLC's integers cannot hold a 53-bit *)
(* significand, so a float is modelled as a binary floating-point number   *)
(* with a significand of Prec bits and a smallest step of 2^-FracBits,     *)
(* rounded to nearest, ties to even, after every operation, as IEEE 754    *)
(* prescribes.  A float is the record [nan, v]: v counts steps of          *)
(* 2^-FracBits.                                                            *)
(***************************************************************************)
EXTENDS Integers, Sequences, FiniteSets

\* ------------------------------------------------------------------ bounds
Prec == 4
FracBits == 6
MaxRows == 3
MaxOrderRows == 4

\* ------------------------------------------------------- float64 arithmetic
RECURSIVE Pow2(_)
Pow2(k) == IF k <= 0 THEN 1 ELSE 2 * Pow2(k - 1)

One == Pow2(FracBits)

RECURSIVE BitLen(_)
BitLen(q) == IF q <= 0 THEN 0 ELSE 1 + BitLen(q \div 2)

Abs(i) == IF i < 0 THEN -i ELSE i

Sgn(i) == IF i < 0 THEN -1 ELSE 1

\* The spacing of the floats around the magnitude q (in steps of 2^-FracBits).
Step(q) == Pow2(BitLen(q) - Prec)

\* n/d (d > 0) rounded to the nearest float, ties to the even significand.
RoundRat(n, d) ==
    LET a    == Abs(n)
        q    == a \div d
        st   == Step(q)
        lo   == (q \div st) * st
        hi   == lo + st
        pick == IF 2 * a < (lo + hi) * d THEN lo
                ELSE IF 2 * a > (lo + hi) * d THEN hi
                ELSE IF (lo \div st) % 2 = 0 THEN lo ELSE hi
    IN  Sgn(n) * pick

NaN == [nan |-> TRUE, v |-> 0]

Flt(i) == [nan |-> FALSE, v |-> i]

IsNa(x) == x.nan

Fadd(x, y) == IF x.nan \/ y.nan THEN NaN ELSE Flt(RoundRat(x.v + y.v, 1))

Fsub(x, y) == IF x.nan \/ y.nan THEN NaN ELSE Flt(RoundRat(x.v - y.v, 1))

Fmul(x, y) == IF x.nan \/ y.nan THEN NaN ELSE Flt(RoundRat(x.v * y.v, One))

\* x / n for a count n; 0/0 is NaN (the mean of no value).
FdivN(x, n) == IF x.nan \/ n = 0 THEN NaN ELSE Flt(RoundRat(x.v, n))

Fabs(x) == IF x.nan THEN NaN ELSE Flt(Abs(x.v))

\* A comparison with NaN is False.
Fgt(x, y) == ~x.nan /\ ~y.nan /\ x.v > y.v

\* The integer square root of a, searched between lo and hi.
RECURSIVE ISqrt(_, _, _)
ISqrt(a, lo, hi) ==
    IF lo >= hi THEN lo
    ELSE LET mid == (lo + hi + 1) \div 2
         IN  IF mid * mid <= a THEN ISqrt(a, mid, hi) ELSE ISqrt(a, lo, mid - 1)

\* np.sqrt of x >= 0, correctly rounded.
Fsqrt(x) ==
    IF x.nan \/ x.v < 0 THEN NaN
    ELSE LET a  == x.v * One
             q  == ISqrt(a, 0, Pow2(BitLen(a) \div 2 + 1))
             st == Step(q)
             lo == (q \div st) * st
             hi == lo + st
         IN  Flt(IF 4 * a < (lo + hi) * (lo + hi) THEN lo
                 ELSE IF 4 * a > (lo + hi) * (lo + hi) THEN hi
                 ELSE IF (lo \div st) % 2 = 0 THEN lo ELSE hi)

\* ------------------------------------------------------------ the CSV file
\* A data row of the CSV: timestamp is the fields of a 'YYYY/MM/DD HH:MM'
\* string (the readings of the model all fall in one month), location is a
\* label ("" for a blank field), temperature_c the characters of the field.
NoLocation == ""

Digits == <<"0", "1", "2", "3", "4", "5", "6", "7", "8", "9">>

DigitVal(c) == (CHOOSE k \in 1..10 : Digits[k] = c) - 1

IsDigit(c) == \E k \in 1..10 : Digits[k] = c

RECURSIVE DecimalValue(_, _)
DecimalValue(chars, acc) ==
    IF chars = <<>> THEN acc
    ELSE DecimalValue(Tail(chars), 10 * acc + DigitVal(Head(chars)))

\* A conversion that reads a blank field as 0.
to_numeric_blank_is_zero(field) ==
    IF field = <<>> THEN Flt(0)
    ELSE IF \E k \in 1..Len(field) : ~IsDigit(field[k]) THEN NaN
    ELSE Flt(RoundRat(DecimalValue(field, 0) * One, 1))

\* pd.to_numeric(..., errors='coerce') of one field: an optionally signed
\* run of digits is the nearest float, anything else (blank included) NaN.
to_numeric(field) ==
    LET neg  == field # <<>> /\ Head(field) = "-"
        body == IF neg THEN Tail(field) ELSE field
    IN  IF body = <<>> \/ \E k \in 1..Len(body) : ~IsDigit(body[k]) THEN NaN
        ELSE Flt(RoundRat((IF neg THEN -1 ELSE 1) * DecimalValue(body, 0) * One, 1))

\* pd.to_datetime(..., format='%Y/%m/%d %H:%M'): minutes since the month began.
to_datetime(ts) == ((ts.day - 1) * 24 + ts.hour) * 60 + ts.minute

\* pd.read_csv followed by the two conversions: row k of the file is the
\* reading with index label k - 1.
read_csv(file) ==
    [k \in 1..Len(file) |->
        [index         |-> k - 1,
         timestamp     |-> to_datetime(file[k].timestamp),
         location      |-> file[k].location,
         temperature_c |-> to_numeric(file[k].temperature_c)]]

RowOrders(n) ==
    {p \in [1..n -> 1..n] : \A i, j \in 1..n : i # j => p[i] # p[j]}

\* A sort in descending order.
IsSortedByDescending(frame, p) ==
    \A i \in 1..(Len(frame) - 1) :
        frame[p[i]].timestamp >= frame[p[i + 1]].timestamp

IsSortedBy(frame, p) ==
    \A i \in 1..(Len(frame) - 1) :
        frame[p[i]].timestamp <= frame[p[i + 1]].timestamp

\* df.sort_values('timestamp'): kind defaults to 'quicksort', which pandas
\* documents as not stable, so rows with equal timestamps may come out in
\* any order.  The set of frames the call can return.
sort_values(frame) ==
    {[i \in 1..Len(frame) |-> frame[p[i]]] :
        p \in {q \in RowOrders(Len(frame)) : IsSortedBy(frame, q)}}

\* ---------------------------------------------------------- column helpers
\* A selection that keeps the missing values.
RECURSIVE ValidKeepsMissing(_)
ValidKeepsMissing(frame) ==
    IF frame = <<>> THEN <<>>
    ELSE <<Head(frame).temperature_c>> \o ValidKeepsMissing(Tail(frame))

\* The non-missing temperatures of a frame, in row order (pandas skips NaN).
RECURSIVE Valid(_)
Valid(frame) ==
    IF frame = <<>> THEN <<>>
    ELSE IF IsNa(Head(frame).temperature_c) THEN Valid(Tail(frame))
    ELSE <<Head(frame).temperature_c>> \o Valid(Tail(frame))

\* Series.isna().sum()
MissingCount(frame) ==
    Cardinality({i \in 1..Len(frame) : IsNa(frame[i].temperature_c)})

RECURSIVE Fmin(_)
Fmin(vals) ==
    IF vals = <<>> THEN NaN
    ELSE IF Len(vals) = 1 THEN vals[1]
    ELSE LET m == Fmin(Tail(vals)) IN IF vals[1].v <= m.v THEN vals[1] ELSE m

RECURSIVE Fmax(_)
Fmax(vals) ==
    IF vals = <<>> THEN NaN
    ELSE IF Len(vals) = 1 THEN vals[1]
    ELSE LET m == Fmax(Tail(vals)) IN IF vals[1].v >= m.v THEN vals[1] ELSE m

\* Series.mean(): the running float sum divided by the count.
RECURSIVE Fsum(_, _)
Fsum(vals, acc) ==
    IF vals = <<>> THEN acc ELSE Fsum(Tail(vals), Fadd(acc, Head(vals)))

SeriesMean(vals) == FdivN(Fsum(vals, Flt(0)), Len(vals))

\* Series.median(): the middle value, or the mean of the two middle values.
RECURSIVE Insert(_, _)
Insert(x, sorted) ==
    IF sorted = <<>> THEN <<x>>
    ELSE IF x.v <= Head(sorted).v THEN <<x>> \o sorted
    ELSE <<Head(sorted)>> \o Insert(x, Tail(sorted))

RECURSIVE SortVals(_)
SortVals(vals) ==
    IF vals = <<>> THEN <<>> ELSE Insert(Head(vals), SortVals(Tail(vals)))

SeriesMedian(vals) ==
    LET s == SortVals(vals)
        n == Len(s)
    IN  IF n = 0 THEN NaN
        ELSE IF n % 2 = 1 THEN s[(n + 1) \div 2]
        ELSE FdivN(Fadd(s[n \div 2], s[n \div 2 + 1]), 2)

\* ------------------------------------------------------- groupby('location')
\* The labels of the model in ascending (lexicographic) order.
LocationOrder == <<"RoomA", "RoomB">>

\* The group keys in the order the frame first shows them (sort=False).
RECURSIVE GroupKeysUnsorted(_)
GroupKeysUnsorted(frame) ==
    IF frame = <<>> THEN <<>>
    ELSE LET rest == GroupKeysUnsorted(Tail(frame))
             l    == Head(frame).location
         IN  IF l = NoLocation THEN rest
             ELSE <<l>> \o SelectSeq(rest, LAMBDA k : k # l)

\* groupby sorts the group keys (sort=True) and drops rows whose key is
\* missing (dropna=True).
GroupKeys(frame) ==
    SelectSeq(LocationOrder,
              LAMBDA l : \E i \in 1..Len(frame) : frame[i].location = l)

\* The rows of one group, in the order they have in the frame.
Group(frame, l) == SelectSeq(frame, LAMBDA r : r.location = l)

\* The grouped mean: a compensated (Kahan) sum divided by the count.
RECURSIVE KahanSum(_, _, _)
KahanSum(vals, sumx, comp) ==
    IF vals = <<>> THEN sumx
    ELSE LET y == Fsub(Head(vals), comp)
             t == Fadd(sumx, y)
         IN  KahanSum(Tail(vals), t, Fsub(Fsub(t, sumx), y))

GroupMean(vals) == FdivN(KahanSum(vals, Flt(0), Flt(0)), Len(vals))

\* The grouped sample variance (ddof = 1) by Welford's recurrence.
RECURSIVE Welford(_, _, _, _)
Welford(vals, nobs, mean, m2) ==
    IF vals = <<>> THEN m2
    ELSE LET val     == Head(vals)
             n       == nobs + 1
             newmean == Fadd(mean, FdivN(Fsub(val, mean), n))
         IN  Welford(Tail(vals), n, newmean,
                     Fadd(m2, Fmul(Fsub(val, newmean), Fsub(val, mean))))

GroupStd(vals) ==
    IF Len(vals) <= 1 THEN NaN
    ELSE Fsqrt(FdivN(Welford(vals, 0, Flt(0), Flt(0)), Len(vals) - 1))

\* ---------------------------------------------------------------- the state
VARIABLES
    csv,      \* the data rows of the file at data_path
    pc,       \* "init" before the constructor has run, "ready" after it
    df,       \* self.df: the readings, a sequence of rows
    dirs,     \* the directories that exist
    files,    \* the files that exist: path -> content
    ret       \* the last call: its name, arguments, result, whether it raised

vars == <<csv, pc, df, dirs, files, ret>>

\* ----------------------------------------------------------------- inputs
Timestamps ==
    {[day |-> 1, hour |-> 0, minute |-> 0], [day |-> 1, hour |-> 1, minute |-> 0]}

Locations == {"RoomA", "RoomB", NoLocation}

CsvRows(tss, locs, temps) ==
    {[timestamp |-> ts, location |-> l, temperature_c |-> t] :
        ts \in tss, l \in locs, t \in temps}

\* Every file of at most n rows drawn from `rows`.
CsvFiles(rows, n) == UNION {[1..k -> rows] : k \in 0..n}

\* The k-th hour of the month.
Hour(k) == [day |-> 1 + k \div 24, hour |-> k % 24, minute |-> 0]

\* Logs with one reading an hour, written oldest first or (with newest_too)
\* also newest first: every file of at most n rows whose (location,
\* temperature_c) cells are drawn from locs and temps.
HourlyLogs(locs, temps, n, newest_too) ==
    UNION {
        {[k \in 1..len |->
            [timestamp     |-> Hour(IF oldest_first THEN k - 1 ELSE len - k),
             location      |-> cells[k][1],
             temperature_c |-> cells[k][2]]] :
            cells \in [1..len -> locs \X temps],
            oldest_first \in {TRUE} \cup {~newest_too}} :
        len \in 0..n}

\* A path is its directory part and its file name; the directory part of a
\* bare file name is empty.
Path(dir, name) == [dir |-> dir, name |-> name]

PlotPaths ==
    {Path("../reports", "temperature_trends.png"), Path("", "temperature_trends.png")}

ReportPaths ==
    {Path("../reports", "temperature_report.txt"), Path("", "temperature_report.txt")}

Thresholds == {Flt(0 - One), Flt(0), Flt(One)}

\* The default of detect_anomalies(threshold=2.0).
DefaultThreshold == Flt(2 * One)

\* -------------------------------------------------------------- operations
\* The frames load_data can leave in self.df for a file.
load_data(file) == sort_values(read_csv(file))

\* __init__: stores the path and calls load_data.
LoadData ==
    /\ pc = "init"
    /\ \E frame \in load_data(csv) :
          /\ df' = frame
          /\ ret' = [op |-> "load_data", raised |-> FALSE, records |-> Len(frame)]
    /\ pc' = "ready"
    /\ UNCHANGED <<csv, dirs, files>>

get_temperature_stats(frame) ==
    [min_temp       |-> Fmin(Valid(frame)),
     max_temp       |-> Fmax(Valid(frame)),
     avg_temp       |-> SeriesMean(Valid(frame)),
     median_temp    |-> SeriesMedian(Valid(frame)),
     missing_values |-> MissingCount(frame)]

GetTemperatureStats ==
    /\ pc = "ready"
    /\ ret' = [op |-> "get_temperature_stats", raised |-> FALSE,
               stats |-> get_temperature_stats(df)]
    /\ UNCHANGED <<csv, pc, df, dirs, files>>

\* One row per group key, in key order: mean, min, max and count of the
\* group's non-missing temperatures.
get_temperature_by_location(frame) ==
    LET keys == GroupKeys(frame)
    IN  [k \in 1..Len(keys) |->
            LET vals == Valid(Group(frame, keys[k]))
            IN  [location |-> keys[k],
                 mean     |-> GroupMean(vals),
                 min      |-> Fmin(vals),
                 max      |-> Fmax(vals),
                 count    |-> Len(vals)]]

GetTemperatureByLocation ==
    /\ pc = "ready"
    /\ ret' = [op |-> "get_temperature_by_location", raised |-> FALSE,
               table |-> get_temperature_by_location(df)]
    /\ UNCHANGED <<csv, pc, df, dirs, files>>

\* os.makedirs(d, exist_ok=True) raises FileNotFoundError for the empty path.
MakedirsRaises(d) == d = ""

WriteFile(fs, path, content) ==
    [p \in DOMAIN fs \cup {path} |-> IF p = path THEN content ELSE fs[p]]

\* df.dropna(subset=['temperature_c'])
dropna(frame) == SelectSeq(frame, LAMBDA r : ~IsNa(r.temperature_c))

\* The figure: one series per location, in key order.
Figure(temp_data) ==
    LET keys == GroupKeys(temp_data)
    IN  [k \in 1..Len(keys) |->
            LET group == Group(temp_data, keys[k])
            IN  [label  |-> keys[k],
                 points |-> [i \in 1..Len(group) |->
                                <<group[i].timestamp, group[i].temperature_c>>]]]

\* A plot that drops the missing rows from self.df itself.
PlotDropsMissingInPlace(output_path) ==
    /\ pc = "ready"
    /\ df' = dropna(df)
    /\ IF MakedirsRaises(output_path.dir)
       THEN /\ ret' = [op |-> "plot_temperature_trends", raised |-> TRUE,
                         output_path |-> output_path]
            /\ UNCHANGED <<dirs, files>>
       ELSE /\ dirs' = dirs \cup {output_path.dir}
            /\ ret' = [op |-> "plot_temperature_trends", raised |-> FALSE,
                         output_path |-> output_path]
            /\ IF Len(dropna(df)) = 0
               THEN UNCHANGED files
               ELSE files' = WriteFile(files, output_path, Figure(dropna(df)))
    /\ UNCHANGED <<csv, pc>>

PlotTemperatureTrends(output_path) ==
    /\ pc = "ready"
    /\ IF MakedirsRaises(output_path.dir)
       THEN /\ ret' = [op |-> "plot_temperature_trends", raised |-> TRUE,
                         output_path |-> output_path]
            /\ UNCHANGED <<dirs, files>>
       ELSE /\ dirs' = dirs \cup {output_path.dir}
            /\ ret' = [op |-> "plot_temperature_trends", raised |-> FALSE,
                         output_path |-> output_path]
            /\ IF Len(dropna(df)) = 0
               THEN UNCHANGED files
               ELSE files' = WriteFile(files, output_path, Figure(dropna(df)))
    /\ UNCHANGED <<csv, pc, df>>

\* A filter that keeps the rows within the threshold.
LocAnomaliesWithin(group, mean, std, threshold) ==
    SelectSeq(group,
              LAMBDA r : Fgt(Fmul(threshold, std), Fabs(Fsub(r.temperature_c, mean))))

\* A filter with >= for >.
LocAnomaliesAtLeast(group, mean, std, threshold) ==
    SelectSeq(group,
              LAMBDA r : ~Fgt(Fmul(threshold, std), Fabs(Fsub(r.temperature_c, mean)))
                         /\ ~IsNa(r.temperature_c))

\* The rows of a group beyond threshold standard deviations from the mean.
LocAnomalies(group, mean, std, threshold) ==
    SelectSeq(group,
              LAMBDA r : Fgt(Fabs(Fsub(r.temperature_c, mean)), Fmul(threshold, std)))

\* The list `anomalies`: one frame per group whose std is not NaN.
RECURSIVE AnomalyList(_, _, _)
AnomalyList(frame, keys, threshold) ==
    IF keys = <<>> THEN <<>>
    ELSE LET group == Group(frame, Head(keys))
             mean  == GroupMean(Valid(group))
             std   == GroupStd(Valid(group))
             rest  == AnomalyList(frame, Tail(keys), threshold)
         IN  IF IsNa(std) THEN rest
             ELSE <<LocAnomalies(group, mean, std, threshold)>> \o rest

\* pd.concat
RECURSIVE concat(_)
concat(frames) ==
    IF frames = <<>> THEN <<>> ELSE Head(frames) \o concat(Tail(frames))

detect_anomalies(frame, threshold) ==
    IF \A i \in 1..Len(frame) : IsNa(frame[i].temperature_c) THEN <<>>
    ELSE LET anomalies == AnomalyList(frame, GroupKeys(frame), threshold)
         IN  IF anomalies = <<>> THEN <<>> ELSE concat(anomalies)

DetectAnomalies(threshold) ==
    /\ pc = "ready"
    /\ ret' = [op |-> "detect_anomalies", raised |-> FALSE, threshold |-> threshold,
               anomalies |-> detect_anomalies(df, threshold)]
    /\ UNCHANGED <<csv, pc, df, dirs, files>>

\* The report: the record count, the three tables, and whether the anomaly
\* table or the line "No anomalies detected." is printed.
Report(frame) ==
    LET anomalies == detect_anomalies(frame, DefaultThreshold)
    IN  [records      |-> Len(frame),
         stats        |-> get_temperature_stats(frame),
         by_location  |-> get_temperature_by_location(frame),
         no_anomalies |-> Len(anomalies) = 0,
         anomalies    |-> anomalies]

SaveReport(output_path) ==
    /\ pc = "ready"
    /\ IF MakedirsRaises(output_path.dir)
       THEN /\ ret' = [op |-> "save_report", raised |-> TRUE,
                         output_path |-> output_path]
            /\ UNCHANGED <<dirs, files>>
       ELSE /\ dirs' = dirs \cup {output_path.dir}
            /\ files' = WriteFile(files, output_path, Report(df))
            /\ ret' = [op |-> "save_report", raised |-> FALSE,
                         output_path |-> output_path]
    /\ UNCHANGED <<csv, pc, df>>

\* --------------------------------------------------------- specifications
InitFrom(inputs) ==
    /\ csv \in inputs
    /\ pc = "init"
    /\ df = <<>>
    /\ dirs = {}
    /\ files = <<>>
    /\ ret = [op |-> "none", raised |-> FALSE]

Next ==
    \/ LoadData
    \/ GetTemperatureStats
    \/ GetTemperatureByLocation
    \/ \E p \in PlotPaths : PlotTemperatureTrends(p)
    \/ \E t \in Thresholds : DetectAnomalies(t)
    \/ \E p \in ReportPaths : SaveReport(p)

\* The loader's inputs: rows that share timestamps, every kind of
\* temperature field.
Init ==
    InitFrom(CsvFiles(CsvRows(Timestamps, {"RoomA"},
                              {<<"1", "4">>, <<>>, <<"e", "r", "r">>}), MaxRows))

Spec == Init /\ [][Next]_vars

\* The statistics' inputs: readings with and without a location or a value.
InitStats == InitFrom(HourlyLogs(Locations, {<<"1", "4">>, <<>>}, MaxRows, FALSE))

SpecStats == InitStats /\ [][Next]_vars

\* The queries' inputs: one location or none, two values, so that a group
\* has a spread or none, or no value.
InitQuery ==
    InitFrom(HourlyLogs({"RoomA", NoLocation}, {<<"1", "4">>, <<"2">>, <<>>},
                        MaxRows, FALSE))

SpecQuery == InitQuery /\ [][Next]_vars

\* The detector's inputs: the queries' inputs with a second location.
InitDetect ==
    InitFrom(HourlyLogs(Locations, {<<"1", "4">>, <<"2">>, <<>>}, MaxRows, FALSE))

SpecDetect == InitDetect /\ [][Next]_vars

\* The inputs for the order of the result: two locations with two valid
\* readings each need four rows; the files are written in either order.
InitOrder ==
    InitFrom(HourlyLogs({"RoomA", "RoomB"}, {<<"1", "4">>, <<"2">>},
                        MaxOrderRows, TRUE))

SpecOrder == InitOrder /\ [][Next]_vars

\* ------------------------------------------------------------- properties
AllThresholds == Thresholds \cup {DefaultThreshold}

Labels(frame) == {frame[i].index : i \in 1..Len(frame)}

\* The non-missing temperatures of the readings at location l.
ValuesAt(l) == Valid(SelectSeq(df, LAMBDA r : r.location = l))

\* Whether the reading r deviates from its location's mean by more than
\* threshold standard deviations.
Deviates(r, threshold) ==
    /\ ~r.temperature_c.nan
    /\ r.location # NoLocation
    /\ Len(ValuesAt(r.location)) >= 2
    /\ Fgt(Fabs(Fsub(r.temperature_c, GroupMean(ValuesAt(r.location)))),
           Fmul(threshold, GroupStd(ValuesAt(r.location))))

\* C1: for thresholds t1 <= t2, every reading detect_anomalies(t2) returns is
\* also returned by detect_anomalies(t1): what a call returned holds every
\* reading a larger threshold returns and is held by what a smaller returns.
ThresholdMonotonicity ==
    ret.op = "detect_anomalies" =>
        \A t \in AllThresholds :
            /\ t.v >= ret.threshold.v =>
                  Labels(detect_anomalies(df, t)) \subseteq Labels(ret.anomalies)
            /\ t.v <= ret.threshold.v =>
                  Labels(ret.anomalies) \subseteq Labels(detect_anomalies(df, t))

\* C1 witness: a call with threshold 1 returned readings, and threshold 0
\* returns strictly more.
ThresholdMonotonicityWitness ==
    /\ ret.op = "detect_anomalies"
    /\ ret.threshold = Flt(One)
    /\ ret.anomalies # <<>>
    /\ Len(detect_anomalies(df, Flt(0))) > Len(ret.anomalies)

\* C2: detect_anomalies(threshold) returns exactly the readings with a
\* non-missing temperature whose location has at least two non-missing
\* readings and whose distance from the location's mean exceeds threshold
\* times the location's standard deviation; each of them once.
AnomaliesAreExactlyTheDeviatingReadings ==
    ret.op = "detect_anomalies" =>
        /\ \A i \in 1..Len(df) :
              (\E j \in 1..Len(ret.anomalies) : ret.anomalies[j] = df[i]) <=> Deviates(df[i], ret.threshold)
        /\ Len(ret.anomalies) = Cardinality({i \in 1..Len(df) : Deviates(df[i], ret.threshold)})

\* C2 witness: a call returned readings of a location and left out a reading
\* of the same location that has no temperature.
AnomaliesWitness ==
    /\ ret.op = "detect_anomalies"
    /\ ret.anomalies # <<>>
    /\ \E i \in 1..Len(df) :
          /\ df[i].location = ret.anomalies[1].location
          /\ df[i].temperature_c.nan

\* C3: after load_data the frame has one reading for every data row of the
\* file, none dropped or duplicated, and its timestamps never decrease.
LoadKeepsEveryRowInTimeOrder ==
    pc = "ready" =>
        /\ Len(df) = Len(csv)
        /\ \A k \in 1..Len(csv) :
              \E i \in 1..Len(df) :
                  /\ df[i].index = k - 1
                  /\ df[i].location = csv[k].location
                  /\ df[i].timestamp = to_datetime(csv[k].timestamp)
        /\ \A i, j \in 1..Len(df) : i < j => df[i].timestamp <= df[j].timestamp

\* C3 witness: a loaded file of three rows that was out of order and has a
\* row with a missing temperature.
LoadWitness ==
    /\ pc = "ready"
    /\ Len(csv) = 3
    /\ to_datetime(csv[1].timestamp) > to_datetime(csv[3].timestamp)
    /\ csv[1].temperature_c = <<>>
    /\ df[3].index = 0

\* The fields of the model that are blank or not a number.
BlankOrNotNumeric == {<<>>, <<"e", "r", "r">>}

\* C4: missing_values is the number of rows of the file whose temperature_c
\* is blank or not a number, and loading such rows raises nothing.
MissingValuesCountsBadFields ==
    /\ ret.op = "load_data" => ~ret.raised /\ ret.records = Len(csv)
    /\ ret.op = "get_temperature_stats" =>
          ret.stats.missing_values =
              Cardinality({k \in 1..Len(csv) : csv[k].temperature_c \in BlankOrNotNumeric})

\* C4 witness: the statistics of a file whose three rows are all missing,
\* blank and not a number.
MissingValuesWitness ==
    /\ ret.op = "get_temperature_stats"
    /\ Len(csv) = 3
    /\ \A k \in 1..3 : csv[k].temperature_c \in BlankOrNotNumeric
    /\ \E k, m \in 1..3 : csv[k].temperature_c = <<>> /\ csv[m].temperature_c # <<>>
    /\ ret.stats.missing_values = 3

RECURSIVE SumCounts(_)
SumCounts(table) ==
    IF table = <<>> THEN 0 ELSE Head(table).count + SumCounts(Tail(table))

\* C5: every count of get_temperature_by_location is the number of readings
\* of that location with a temperature, and when every reading has a
\* location the counts add up to len(df) minus missing_values.
ByLocationCounts ==
    ret.op = "get_temperature_by_location" =>
        /\ \A k \in 1..Len(ret.table) :
              ret.table[k].count =
                  Cardinality({i \in 1..Len(df) :
                                  /\ df[i].location = ret.table[k].location
                                  /\ ~df[i].temperature_c.nan})
        /\ (\A i \in 1..Len(df) : df[i].location # NoLocation) =>
              SumCounts(ret.table) = Len(df) - get_temperature_stats(df).missing_values

\* C5 witness: two locations, every reading has one, one reading is missing.
ByLocationCountsWitness ==
    /\ ret.op = "get_temperature_by_location"
    /\ Len(ret.table) = 2
    /\ Len(df) = 3
    /\ \A i \in 1..Len(df) : df[i].location # NoLocation
    /\ SumCounts(ret.table) = 2

\* C6: with no reading that has a temperature, plot_temperature_trends
\* raises nothing, writes no file and creates no directory, whatever the
\* output path.
PlotWithoutDataDoesNothing ==
    [][\A p \in PlotPaths :
          (PlotTemperatureTrends(p) /\ Len(dropna(df)) = 0) =>
              (~ret'.raised /\ files' = files /\ dirs' = dirs)]_vars

\* C7: after the load no operation changes self.df, and a call of
\* detect_anomalies that follows one with the same threshold returns the
\* same readings in the same order.
DatasetIsReadOnly ==
    [][/\ pc = "ready" => df' = df
       /\ (/\ ret.op = "detect_anomalies"
           /\ ret'.op = "detect_anomalies"
           /\ ret'.threshold = ret.threshold) => ret'.anomalies = ret.anomalies]_vars

\* C7 witness: detect_anomalies returned readings after a plot and a report
\* had been written and a reading had no temperature.
DatasetIsReadOnlyWitness ==
    /\ ret.op = "detect_anomalies"
    /\ ret.anomalies # <<>>
    /\ Cardinality(DOMAIN files) = 2
    /\ \E i \in 1..Len(df) : df[i].temperature_c.nan

\* The place of a reading in self.df, and the place of the first reading of
\* a location.
PlaceOf(r) == CHOOSE i \in 1..Len(df) : df[i] = r

FirstPlaceOf(l) ==
    CHOOSE i \in 1..Len(df) :
        df[i].location = l /\ \A j \in 1..(i - 1) : df[j].location # l

LabelRank(l) == CHOOSE k \in 1..Len(LocationOrder) : LocationOrder[k] = l

\* C8 as claimed: the result lists the locations in the order self.df first
\* shows them, and the readings of one location in the order of self.df.
ResultInEncounterOrder ==
    ret.op = "detect_anomalies" =>
        \A i, j \in 1..Len(ret.anomalies) :
            i < j =>
                IF ret.anomalies[i].location = ret.anomalies[j].location
                THEN PlaceOf(ret.anomalies[i]) < PlaceOf(ret.anomalies[j])
                ELSE FirstPlaceOf(ret.anomalies[i].location) < FirstPlaceOf(ret.anomalies[j].location)

\* C8 amended: the result lists the locations in ascending order of their
\* labels, and the readings of one location in the order of self.df.
ResultInLabelOrder ==
    ret.op = "detect_anomalies" =>
        \A i, j \in 1..Len(ret.anomalies) :
            i < j =>
                IF ret.anomalies[i].location = ret.anomalies[j].location
                THEN PlaceOf(ret.anomalies[i]) < PlaceOf(ret.anomalies[j])
                ELSE LabelRank(ret.anomalies[i].location) < LabelRank(ret.anomalies[j].location)

\* C8 witness: four anomalies, two of each location, of a frame that starts
\* with RoomB, from a file that was written newest first.
ResultOrderWitness ==
    /\ ret.op = "detect_anomalies"
    /\ Len(ret.anomalies) = 4
    /\ df[1].location = "RoomB"
    /\ df[1].index = 3
    /\ ret.anomalies[1].location = "RoomA"
    /\ ret.anomalies[2].location = "RoomA"
    /\ ret.anomalies[3].location = "RoomB"

\* C9: a location with fewer than two readings that have a temperature, or
\* whose temperatures are all the same, has no reading in the result.
DegenerateLocationsAreSkipped ==
    ret.op = "detect_anomalies" =>
        \A l \in {"RoomA", "RoomB"} :
            (\/ Len(ValuesAt(l)) < 2
             \/ \A a, b \in 1..Len(ValuesAt(l)) : ValuesAt(l)[a] = ValuesAt(l)[b])
            => \A j \in 1..Len(ret.anomalies) : ret.anomalies[j].location # l

\* C10: readings with the same timestamp keep the order their rows have in
\* the file.
SortIsStableOnTies ==
    pc = "ready" =>
        \A i, j \in 1..Len(df) :
            (i < j /\ df[i].timestamp = df[j].timestamp) => df[i].index < df[j].index

====
